---- MODULE Spec2Model ----
(***************************************************************************)
(* HabitMon (src/src/App.tsx): the habit store kept in React state and     *)
(* mirrored to one localStorage slot, and the pure streak / evolution      *)
(* calculators.                                                            *)
(*                                                                         *)
(* Representation.                                                         *)
(*  - An instant is a whole number of hours since the epoch, in UTC.       *)
(*  - An ISO date string "YYYY-MM-DD" is represented by its day number     *)
(*    (days since the epoch).  The strings are fixed width, so the default *)
(*    (lexicographic) Array.prototype.sort orders them as <= orders the    *)
(*    day numbers.                                                         *)
(*  - A habit name is a sequence of one-character strings, so that         *)
(*    String.prototype.trim has something to do.                           *)
(*  - A JSON text is the sequence of its lexical tokens.                   *)
(***************************************************************************)
EXTENDS Integers, Sequences, FiniteSets, TLC

VARIABLES
    habits,     \* App: the React state `habits` (a JavaScript value)
    pending,    \* App: the value handed to setHabits by the load effect, not yet rendered
    storage,    \* localStorage[STORAGE_KEY]: NoItem or a JSON text
    mounted,    \* localStorage[STORAGE_KEY] as it was when the App last mounted
    pc,         \* App: position in React's mount / render / effect cycle
    crash,      \* "none", or which uncaught error unmounted the App
    lastOp,     \* the last thing the user did, and whether it found its target
    now,        \* the wall clock, an instant
    quotaFull,  \* localStorage.setItem throws (quota exceeded, storage disabled)
    args,       \* calculator specifications: the arguments of the call
    result      \* calculator specifications: what the call returned

vars == <<habits, pending, storage, mounted, pc, crash, lastOp, now, quotaFull, args, result>>

appVars == <<habits, pending, storage, mounted, pc, crash, lastOp, now, quotaFull>>

calcVars == <<args, result>>

(***************************************************************************)
(* Bounds of the model.                                                    *)
(***************************************************************************)
MaxHabits == 2      \* addHabit is not taken beyond this many habits
MaxDay == 4         \* calculator specifications: dates 0 .. MaxDay
MaxTotal == 14      \* calculator specifications: totals 0 .. MaxTotal
MaxLen == 3         \* calculator specifications: completions of at most this length

HoursPerDay == 24

\* Math.random().toString(36).substring(2, 9): the strings it may produce
IdPool == {"a", "b"}

\* What the user may type into the name field
TypedNames == {<< >>, <<" ">>, <<"R">>, <<" ", "R", " ">>}

\* Local time = UTC + offset (hours)
TzOffsets == {-5, 0, 2}

\* The instants the wall clock is read at: 06:00 on day 0 and on day 1 (UTC)
ClockTimes == {6, 30}

\* The categories picked in the form's select
PickedCategories == {"Health", "Creativity"}

CATEGORIES == <<"Health", "Productivity", "Creativity", "Personal">>

HabitCategory == {CATEGORIES[i] : i \in 1..Len(CATEGORIES)}

(***************************************************************************)
(* Utilities                                                               *)
(***************************************************************************)
Range(s) == {s[i] : i \in 1..Len(s)}

\* Date.prototype.toISOString().slice(0, 10): the UTC calendar date of an instant
toISODate(t) == t \div HoursPerDay

todayISO(clock) == toISODate(clock)

\* new Date(isoDate + "T00:00:00"): a date-time without offset is LOCAL midnight
localMidnight(isoDate, tz) == isoDate * HoursPerDay - tz

\* d.setDate(d.getDate() + days) moves the local calendar day and keeps the
\* local time of day; toISOString() then reads the date in UTC.
dateAdd(isoDate, days, tz) ==
    toISODate(localMidnight(isoDate, tz) + days * HoursPerDay)

\* Array.from(new Set(arr)): first occurrences, in order
RECURSIVE uniq(_)
uniq(arr) ==
    IF arr = << >> THEN << >>
    ELSE LET front == uniq(SubSeq(arr, 1, Len(arr) - 1))
             last == arr[Len(arr)]
         IN  IF last \in Range(front) THEN front ELSE Append(front, last)

\* Array.prototype.sort() on ISO date strings
RECURSIVE sort(_)
sort(arr) ==
    IF arr = << >> THEN << >>
    ELSE LET m == CHOOSE i \in 1..Len(arr) :
                     /\ \A j \in 1..Len(arr) : arr[i] <= arr[j]
                     /\ \A j \in 1..(i - 1) : arr[j] # arr[i]
             rest == [k \in 1..(Len(arr) - 1) |-> IF k < m THEN arr[k] ELSE arr[k + 1]]
         IN  <<arr[m]>> \o sort(rest)

\* the while loop of computeStreak
RECURSIVE streakLoop(_, _, _)
streakLoop(set, cursor, tz) ==
    IF cursor \in set THEN 1 + streakLoop(set, dateAdd(cursor, -1, tz), tz) ELSE 0

computeStreak(completions, clock, tz) ==
    IF Len(completions) = 0 THEN 0
    ELSE LET set == Range(completions)
             cursor == IF todayISO(clock) \in set
                       THEN todayISO(clock)
                       ELSE dateAdd(todayISO(clock), -1, tz)
         IN  streakLoop(set, cursor, tz)

totalCompletions(completions) == Len(completions)

(***************************************************************************)
(* Creature logic.  The emoji are named instead of drawn.                  *)
(***************************************************************************)
CREATURES ==
    [Health       |-> <<"egg", "hatching chick", "butterfly">>,
     Productivity |-> <<"egg", "robot", "rocket">>,
     Creativity   |-> <<"egg", "sparkles", "milky way">>,
     Personal     |-> <<"egg", "fox", "unicorn">>]

THRESHOLDS == [baby |-> 4, final |-> 11]

getStageStrict(completions) ==
    IF completions > THRESHOLDS.final THEN "Final"
    ELSE IF completions > THRESHOLDS.baby THEN "Baby"
    ELSE "Egg"

getStage(completions) ==
    IF completions >= THRESHOLDS.final THEN "Final"
    ELSE IF completions >= THRESHOLDS.baby THEN "Baby"
    ELSE "Egg"

creatureEmoji(category, completions) ==
    LET stage == getStage(completions)
        ladder == CREATURES[category]
    IN  IF stage = "Egg" THEN ladder[1]
        ELSE IF stage = "Baby" THEN ladder[2]
        ELSE ladder[3]

stageLabel(completions) ==
    LET s == getStage(completions)
    IN  IF s = "Egg" THEN "Egg" ELSE IF s = "Baby" THEN "Hatchling" ELSE "Evolved"

(***************************************************************************)
(* JavaScript values.  `habits` is typed Habit[], but load() casts whatever*)
(* JSON.parse returns, so the state can hold any of these.  A habit is the *)
(* record [id, name, category, createdAt, completions]; any other object   *)
(* inside an array is the function from its keys to its values.            *)
(***************************************************************************)
JSArray(items) == [t |-> "array", items |-> items]

JSNull == [t |-> "null"]

JSNumber(n) == [t |-> "number", n |-> n]

JSObject(fields) == [t |-> "object", fields |-> fields]

EmptyArray == JSArray(<< >>)

HabitKeys == {"id", "name", "category", "createdAt", "completions"}

\* v is an array of habit records
IsCollection(v) ==
    /\ v.t = "array"
    /\ \A i \in 1..Len(v.items) : DOMAIN v.items[i] = HabitKeys

(***************************************************************************)
(* JSON texts, as token sequences.  Commas and colons are left out; a key  *)
(* token stands for the quoted key and its colon.  The kinds "string",     *)
(* "text", "date" and "instant" are all JSON strings: the kind says how    *)
(* the model represents the string's contents.                             *)
(***************************************************************************)
P(s) == <<"punct", s>>

K(s) == <<"key", s>>

S(s) == <<"string", s>>

T(cs) == <<"text", cs>>

D(n) == <<"date", n>>

I(n) == <<"instant", n>>

N(n) == <<"number", n>>

NullToken == <<"null", "null">>

StringKinds == {"string", "text", "date", "instant"}

\* JSON.stringify of one Habit: the keys in the order the object literal of
\* addHabit sets them ({...h, completions} of toggleToday keeps that order)
stringifyHabit(h) ==
    <<P("{"), K("id"), S(h.id), K("name"), T(h.name), K("category"), S(h.category),
      K("createdAt"), I(h.createdAt), K("completions"), P("[")>>
    \o [i \in 1..Len(h.completions) |-> D(h.completions[i])]
    \o <<P("]"), P("}")>>

RECURSIVE stringifyItems(_)
stringifyItems(items) ==
    IF items = << >> THEN << >>
    ELSE stringifyHabit(Head(items)) \o stringifyItems(Tail(items))

\* JSON.stringify(habits), habits an array of Habit
JSONstringify(v) == <<P("[")>> \o stringifyItems(v.items) \o <<P("]")>>

SyntaxError == [ok |-> FALSE, value |-> JSNull, rest |-> << >>]

Parsed(v, rest) == [ok |-> TRUE, value |-> v, rest |-> rest]

\* the strings of an array, up to its "]"
RECURSIVE parseStrings(_)
parseStrings(toks) ==
    IF toks = << >> THEN SyntaxError
    ELSE IF Head(toks) = P("]") THEN Parsed(<< >>, Tail(toks))
    ELSE IF Head(toks)[1] \in StringKinds
         THEN LET r == parseStrings(Tail(toks))
              IN  IF r.ok THEN Parsed(<<Head(toks)[2]>> \o r.value, r.rest)
                  ELSE SyntaxError
    ELSE SyntaxError

\* the value of an object member: a string or an array of strings
parseMemberValue(toks) ==
    IF toks = << >> THEN SyntaxError
    ELSE IF Head(toks)[1] \in StringKinds THEN Parsed(Head(toks)[2], Tail(toks))
    ELSE IF Head(toks) = P("[") THEN parseStrings(Tail(toks))
    ELSE SyntaxError

\* the members of an object, up to its "}"
RECURSIVE parseMembers(_)
parseMembers(toks) ==
    IF toks = << >> THEN SyntaxError
    ELSE IF Head(toks) = P("}") THEN Parsed(<< >>, Tail(toks))
    ELSE IF Head(toks)[1] = "key"
         THEN LET v == parseMemberValue(Tail(toks))
                  r == parseMembers(v.rest)
              IN  IF v.ok /\ r.ok
                  THEN Parsed((Head(toks)[2] :> v.value) @@ r.value, r.rest)
                  ELSE SyntaxError
    ELSE SyntaxError

\* the objects of an array, up to its "]"
RECURSIVE parseElements(_)
parseElements(toks) ==
    IF toks = << >> THEN SyntaxError
    ELSE IF Head(toks) = P("]") THEN Parsed(<< >>, Tail(toks))
    ELSE IF Head(toks) = P("{")
         THEN LET e == parseMembers(Tail(toks))
                  r == parseElements(e.rest)
              IN  IF e.ok /\ r.ok THEN Parsed(<<e.value>> \o r.value, r.rest)
                  ELSE SyntaxError
    ELSE SyntaxError

parseValue(toks) ==
    IF toks = << >> THEN SyntaxError
    ELSE IF Head(toks) = NullToken THEN Parsed(JSNull, Tail(toks))
    ELSE IF Head(toks)[1] = "number" THEN Parsed(JSNumber(Head(toks)[2]), Tail(toks))
    ELSE IF Head(toks) = P("{")
         THEN LET r == parseMembers(Tail(toks))
              IN  IF r.ok THEN Parsed(JSObject(r.value), r.rest) ELSE SyntaxError
    ELSE IF Head(toks) = P("[")
         THEN LET r == parseElements(Tail(toks))
              IN  IF r.ok THEN Parsed(JSArray(r.value), r.rest) ELSE SyntaxError
    ELSE SyntaxError

\* JSON.parse(text): ok = FALSE stands for the SyntaxError it throws.  It covers
\* the JSON the slot holds in this model: null, a number, an object of strings
\* and string arrays, an array of such objects.
JSONparse(text) ==
    LET r == parseValue(text)
    IN  IF r.ok /\ r.rest = << >> THEN r ELSE SyntaxError

(***************************************************************************)
(* Storage                                                                 *)
(***************************************************************************)
\* localStorage.getItem(STORAGE_KEY) returns null or the stored text
NoItem == [present |-> FALSE, text |-> << >>]

Item(text) == [present |-> TRUE, text |-> text]

loadInverted(slot) ==
    IF slot.present /\ slot.text # << >>
    THEN EmptyArray
    ELSE LET r == JSONparse(slot.text) IN IF r.ok THEN r.value ELSE EmptyArray

\* raw is falsy when it is null or the empty string; the catch turns the
\* SyntaxError into []
load(slot) ==
    IF slot.present /\ slot.text # << >>
    THEN LET r == JSONparse(slot.text) IN IF r.ok THEN r.value ELSE EmptyArray
    ELSE EmptyArray

saveNothing(slot, hs) == slot

\* the slot after localStorage.setItem(STORAGE_KEY, JSON.stringify(habits)) returned
save(slot, hs) == Item(JSONstringify(hs))

(***************************************************************************)
(* The App component                                                       *)
(***************************************************************************)
\* String.prototype.trim, for the one whitespace character of TypedNames
RECURSIVE trim(_)
trim(name) ==
    IF name = << >> THEN << >>
    ELSE IF Head(name) = " " THEN trim(Tail(name))
    ELSE IF name[Len(name)] = " " THEN trim(SubSeq(name, 1, Len(name) - 1))
    ELSE name

\* arr.includes(x)
includes(arr, x) == \E i \in 1..Len(arr) : arr[i] = x

\* arr.filter((d) => d !== x)
RECURSIVE without(_, _)
without(arr, x) ==
    IF arr = << >> THEN << >>
    ELSE IF Head(arr) = x THEN without(Tail(arr), x)
    ELSE <<Head(arr)>> \o without(Tail(arr), x)

toggleCompletionsNoSort(completions, iso) ==
    IF includes(completions, iso)
    THEN without(completions, iso)
    ELSE uniq(Append(completions, iso))

\* the new completions of the habit toggleToday matched
toggleCompletions(completions, iso) ==
    IF includes(completions, iso)
    THEN without(completions, iso)
    ELSE sort(uniq(Append(completions, iso)))

\* the updater of toggleToday: prev.map(...)
toggleTodayItems(items, id, iso) ==
    [i \in 1..Len(items) |->
        IF items[i].id # id THEN items[i]
        ELSE [items[i] EXCEPT !.completions = toggleCompletions(@, iso)]]

deleteHabitItemsFirst(items, id) ==
    IF items = << >> THEN << >> ELSE Tail(items)

\* the updater of deleteHabit: prev.filter((h) => h.id !== id)
RECURSIVE deleteHabitItems(_, _)
deleteHabitItems(items, id) ==
    IF items = << >> THEN << >>
    ELSE IF Head(items).id = id THEN deleteHabitItems(Tail(items), id)
    ELSE <<Head(items)>> \o deleteHabitItems(Tail(items), id)

\* the updater of addHabit: [newHabit, ...prev].  (The second comma after the
\* id member of the object literal is read as a slip of the pen.)
addHabitItems(items, id, name, category, clock) ==
    <<[id |-> id, name |-> name, category |-> category, createdAt |-> clock,
       completions |-> << >>]>> \o items

\* Rendering App with `habits` = v throws a TypeError: habits.reduce is missing
\* unless v is an array, and h.completions.length needs h.completions.
renderThrows(v) ==
    \/ v.t # "array"
    \/ \E i \in 1..Len(v.items) : "completions" \notin DOMAIN v.items[i]

Mount == [op |-> "mount", hit |-> TRUE]

\* An uncaught error in a render or in an effect: without an error boundary
\* React unmounts the whole tree, and the component's state is gone.
Unmounted(cause) ==
    /\ pc' = "crashed"
    /\ crash' = cause
    /\ habits' = EmptyArray
    /\ pending' = EmptyArray

\* setHabits(updater) in an event handler: React re-renders with the new array
\* and runs the save effect ([habits] changed) before the next event.  save has
\* no try / catch: what localStorage.setItem throws is uncaught in the effect.
SetHabits(items) ==
    IF quotaFull
    THEN /\ Unmounted("save")
         /\ UNCHANGED storage
    ELSE /\ habits' = JSArray(items)
         /\ storage' = save(storage, JSArray(items))
         /\ UNCHANGED <<pending, pc, crash>>

\* useEffect(() => { setHabits(load()); }, [])
LoadEffect ==
    /\ pc = "mount"
    /\ pending' = load(storage)
    /\ pc' = "loaded"
    /\ UNCHANGED <<habits, storage, mounted, crash, lastOp, now, quotaFull, calcVars>>

\* useEffect(() => { save(habits); }, [habits]): after the first render (with
\* the initial []) and after the render that follows setHabits(load())
SaveEffect ==
    /\ pc \in {"loaded", "effect"}
    /\ IF quotaFull
       THEN /\ Unmounted("save")
            /\ UNCHANGED storage
       ELSE /\ storage' = save(storage, habits)
            /\ pc' = IF pc = "loaded" THEN "render" ELSE "idle"
            /\ UNCHANGED <<habits, pending, crash>>
    /\ UNCHANGED <<mounted, lastOp, now, quotaFull, calcVars>>

\* the render that setHabits(load()) of the load effect scheduled
Rerender ==
    /\ pc = "render"
    /\ IF renderThrows(pending)
       THEN Unmounted("render")
       ELSE /\ habits' = pending
            /\ pending' = EmptyArray
            /\ pc' = "effect"
            /\ UNCHANGED crash
    /\ UNCHANGED <<storage, mounted, lastOp, now, quotaFull, calcVars>>

\* HabitForm, onClick of "Add Habit", and the addHabit it calls.  `typed` is the
\* form's name field and `category` its select; setName("") afterwards only
\* clears the field.
ClickAddHabit(typed, category) ==
    /\ pc = "idle"
    /\ mounted' = NoItem
    /\ IF trim(typed) = << >>
       THEN /\ lastOp' = [op |-> "addHabit", hit |-> FALSE]
            /\ UNCHANGED <<habits, pending, storage, pc, crash>>
       ELSE /\ Len(habits.items) < MaxHabits
            /\ lastOp' = [op |-> "addHabit", hit |-> TRUE]
            /\ \E id \in IdPool :
                SetHabits(addHabitItems(habits.items, id, trim(typed), category, now))
    /\ UNCHANGED <<now, quotaFull, calcVars>>

toggleToday(id) ==
    /\ pc = "idle"
    /\ mounted' = NoItem
    /\ lastOp' = [op |-> "toggleToday",
                  hit |-> \E i \in 1..Len(habits.items) : habits.items[i].id = id]
    /\ SetHabits(toggleTodayItems(habits.items, id, todayISO(now)))
    /\ UNCHANGED <<now, quotaFull, calcVars>>

deleteHabit(id) ==
    /\ pc = "idle"
    /\ mounted' = NoItem
    /\ lastOp' = [op |-> "deleteHabit",
                  hit |-> \E i \in 1..Len(habits.items) : habits.items[i].id = id]
    /\ SetHabits(deleteHabitItems(habits.items, id))
    /\ UNCHANGED <<now, quotaFull, calcVars>>

\* The wall clock moves (it is not monotonic: it can be set back).  The clock
\* is read by the handlers only, so it moves between events.
ClockChange(t) ==
    /\ pc = "idle"
    /\ t # now
    /\ now' = t
    /\ UNCHANGED <<habits, pending, storage, mounted, pc, crash, lastOp, quotaFull, calcVars>>

\* The page is loaded again: useState([]) and a first render
Reload ==
    /\ pc \in {"idle", "crashed"}
    /\ habits' = EmptyArray
    /\ pending' = EmptyArray
    /\ mounted' = storage
    /\ pc' = "mount"
    /\ crash' = "none"
    /\ lastOp' = Mount
    /\ UNCHANGED <<storage, now, quotaFull, calcVars>>

\* What the slot may hold before the App ever wrote it
InitialSlots ==
    { NoItem,                                                  \* nothing
      Item(<< >>),                                             \* ""
      Item(<<P("{"), K("id")>>),                               \* {"id":   (truncated)
      Item(<<NullToken>>),                                     \* null
      Item(<<N(42)>>),                                         \* 42
      Item(<<P("{"), P("}")>>),                                \* {}
      Item(<<P("["), P("{"), K("id"), S("a"), P("}"), P("]")>>),  \* [{"id":"a"}]
      Item(<<P("["), P("]")>>) }                               \* []

\* the ids toggleToday and deleteHabit are called with: "c" is never generated
CalledIds == IdPool \cup {"c"}

NoCall == [fn |-> "none"]

Init ==
    /\ habits = EmptyArray
    /\ pending = EmptyArray
    /\ storage \in InitialSlots
    /\ mounted = storage
    /\ pc = "mount"
    /\ crash = "none"
    /\ lastOp = Mount
    /\ now \in ClockTimes
    /\ quotaFull = FALSE
    /\ args = NoCall
    /\ result = NoCall

Next ==
    \/ LoadEffect
    \/ SaveEffect
    \/ Rerender
    \/ \E typed \in TypedNames, category \in PickedCategories : ClickAddHabit(typed, category)
    \/ \E id \in CalledIds : toggleToday(id)
    \/ \E id \in CalledIds : deleteHabit(id)
    \/ \E t \in ClockTimes : ClockChange(t)
    \/ Reload

\* The App where localStorage.setItem returns
Spec == Init /\ [][Next]_vars

\* The slot cannot be written any more: the quota is used up by other keys of
\* the origin, or the browser has storage disabled
StorageFills ==
    /\ ~quotaFull
    /\ pc # "crashed"
    /\ quotaFull' = TRUE
    /\ UNCHANGED <<habits, pending, storage, mounted, pc, crash, lastOp, now, calcVars>>

\* The App where localStorage.setItem may come to throw
SpecFaulty == Init /\ [][Next \/ StorageFills]_vars

(***************************************************************************)
(* Calculator specifications: one call of a pure function on arguments     *)
(* drawn by the initial state.  The App is left idle.                      *)
(***************************************************************************)
AppAtRest ==
    /\ habits = EmptyArray
    /\ pending = EmptyArray
    /\ storage = NoItem
    /\ mounted = NoItem
    /\ pc = "idle"
    /\ crash = "none"
    /\ lastOp = Mount
    /\ now = 0
    /\ quotaFull = FALSE

Dates == 0..MaxDay

\* the elements of a set of dates in ascending order
RECURSIVE ascending(_)
ascending(set) ==
    IF set = {} THEN << >>
    ELSE LET m == CHOOSE d \in set : \A e \in set : d <= e
         IN  <<m>> \o ascending(set \ {m})

\* the hours of day MaxDay (UTC) the streak is computed at
StreakHours == {0, 12, 23}

InitStreak ==
    /\ AppAtRest
    /\ args \in {[completions |-> ascending(set), clock |-> MaxDay * HoursPerDay + h, tz |-> tz] :
                    set \in SUBSET Dates, h \in StreakHours, tz \in TzOffsets}
    /\ result = NoCall

\* HabitItem: const streak = computeStreak(completions)
CallComputeStreak ==
    /\ result = NoCall
    /\ result' = [fn |-> "computeStreak",
                  value |-> computeStreak(args.completions, args.clock, args.tz)]
    /\ UNCHANGED <<appVars, args>>

SpecStreak == InitStreak /\ [][CallComputeStreak]_vars

InitStage ==
    /\ AppAtRest
    /\ args \in [category : HabitCategory, total : 0..MaxTotal]
    /\ result = NoCall

\* HabitItem: creatureEmoji(habit.category, total) and stageLabel(total)
CallCreature ==
    /\ result = NoCall
    /\ result' = [fn |-> "creature",
                  stage |-> getStage(args.total),
                  emoji |-> creatureEmoji(args.category, args.total),
                  label |-> stageLabel(args.total)]
    /\ UNCHANGED <<appVars, args>>

SpecStage == InitStage /\ [][CallCreature]_vars

\* all sequences of dates of length at most n
RECURSIVE SeqsUpTo(_)
SeqsUpTo(n) ==
    IF n = 0 THEN {<< >>}
    ELSE LET shorter == SeqsUpTo(n - 1)
         IN  shorter \cup {Append(q, d) : q \in shorter, d \in Dates}

InitToggle ==
    /\ AppAtRest
    /\ args \in [completions : SeqsUpTo(MaxLen), iso : Dates]
    /\ result = NoCall

\* toggleToday on the matched habit, the first time
ToggleOnce ==
    /\ result = NoCall
    /\ result' = [fn |-> "toggle", times |-> 1,
                  value |-> toggleCompletions(args.completions, args.iso)]
    /\ UNCHANGED <<appVars, args>>

\* and again on the same date
ToggleAgain ==
    /\ result.fn = "toggle"
    /\ result.times = 1
    /\ result' = [fn |-> "toggle", times |-> 2,
                  value |-> toggleCompletions(result.value, args.iso)]
    /\ UNCHANGED <<appVars, args>>

SpecToggle == InitToggle /\ [][ToggleOnce \/ ToggleAgain]_vars

(***************************************************************************)
(* Properties                                                              *)
(***************************************************************************)
Items == habits.items

\* the slot holds a valid serialized collection: a JSON array of habit records
IsCollectionText(slot) ==
    /\ slot.present
    /\ JSONparse(slot.text).ok
    /\ IsCollection(JSONparse(slot.text).value)

StrictlyAscending(arr) == \A k \in 1..(Len(arr) - 1) : arr[k] < arr[k + 1]

NoMatch(id) == \A i \in 1..Len(Items) : Items[i].id # id

\* C1: once an addHabit, toggleToday or deleteHabit and the save effect it
\* triggers have run, reading the slot back gives exactly the in-memory
\* collection: the same habits, in the same order, with the same completions.
C1_StorageMirrorsHabits ==
    (pc = "idle" /\ lastOp.op # "mount") =>
        /\ storage.present
        /\ JSONparse(storage.text).ok
        /\ JSONparse(storage.text).value = habits

C1_Witness ==
    /\ pc = "idle"
    /\ lastOp = [op |-> "toggleToday", hit |-> TRUE]
    /\ Len(Items) = 2
    /\ Items[1].completions = << >>
    /\ Items[2].completions = <<0, 1>>
    /\ JSONparse(storage.text).value = habits

\* C2: when the slot holds a valid serialized collection C at mount, then after
\* the load effect, the save effect of the first render, the re-render and its
\* save effect, the in-memory collection is C and the slot still holds C.
C2_StartupRestores ==
    (pc = "idle" /\ lastOp.op = "mount" /\ IsCollectionText(mounted)) =>
        /\ habits = JSONparse(mounted.text).value
        /\ JSONstringify(habits) = mounted.text
        /\ storage = mounted

C2_Witness ==
    /\ pc = "idle"
    /\ lastOp.op = "mount"
    /\ IsCollectionText(mounted)
    /\ Len(Items) = 2
    /\ Items[1].id # Items[2].id
    /\ Items[2].completions = <<0, 1>>
    /\ storage = mounted

\* the days in the set counting back one day at a time from d, up to the
\* first missing day
RECURSIVE consecutiveDays(_, _)
consecutiveDays(set, d) ==
    IF d \in set THEN 1 + consecutiveDays(set, d - 1) ELSE 0

\* C3: for every completion set, date and time-zone offset, computeStreak is
\* the number of consecutive days in the set counting back from today when
\* today is in the set, otherwise from yesterday (today as todayISO gives it).
C3_StreakCountsConsecutiveDays ==
    result.fn = "computeStreak" =>
        LET set == Range(args.completions)
            today == todayISO(args.clock)
        IN  result.value =
                consecutiveDays(set, IF today \in set THEN today ELSE today - 1)

\* C4: load gives the empty collection whenever the slot is absent, is not
\* valid JSON, or is valid JSON that is not an array of habit records.
C4_LoadFailsSoft ==
    (pc = "loaded" /\ ~IsCollectionText(mounted)) => pending = EmptyArray

\* C5: a storage write that throws after a mutation is swallowed: no error of
\* the save effect escapes to the application, which stays mounted with the
\* result of the mutation in memory.
C5_WriteFailureSwallowed ==
    ~(crash = "save" /\ lastOp.op \in {"addHabit", "toggleToday", "deleteHabit"})

\* C6: no two habits of the collection have the same id.
C6_IdsUnique ==
    \A i, j \in 1..Len(Items) : i # j => Items[i].id # Items[j].id

\* C7: every habit's completions are in ascending order without duplicates.
C7_CompletionsAscending ==
    \A i \in 1..Len(Items) : StrictlyAscending(Items[i].completions)

C7_Witness ==
    /\ pc = "idle"
    /\ lastOp = [op |-> "toggleToday", hit |-> TRUE]
    /\ now = 6
    /\ \E i \in 1..Len(Items) : Items[i].completions = <<0, 1>>

\* C8: toggling twice on the same date restores the completions: the same
\* dates for every starting value, and the very same sequence when the
\* starting value is ascending without duplicates (as toggleToday leaves it).
C8_ToggleTwiceRestores ==
    (result.fn = "toggle" /\ result.times = 2) =>
        /\ Range(result.value) = Range(args.completions)
        /\ StrictlyAscending(args.completions) => result.value = args.completions

C8_Witness ==
    /\ result.fn = "toggle"
    /\ result.times = 2
    /\ args.completions = <<0, 1, 2>>
    /\ args.iso = 1
    /\ result.value = <<0, 1, 2>>

\* C9: submitting a name that is empty or all whitespace, toggleToday with an
\* id that matches no habit and deleteHabit with an id that matches no habit
\* leave the collection as it was (size, order and contents).
C9_RejectedLeavesUnchanged ==
    [][(\/ \E typed \in TypedNames, category \in PickedCategories :
              trim(typed) = << >> /\ ClickAddHabit(typed, category)
        \/ \E id \in CalledIds : NoMatch(id) /\ toggleToday(id)
        \/ \E id \in CalledIds : NoMatch(id) /\ deleteHabit(id))
       => habits' = habits]_vars

C9_Witness ==
    /\ pc = "idle"
    /\ lastOp = [op |-> "deleteHabit", hit |-> FALSE]
    /\ Len(Items) = 2
    /\ Items[2].completions # << >>

StageRank(label) == IF label = "Egg" THEN 1 ELSE IF label = "Hatchling" THEN 2 ELSE 3

\* C10: the stage is Egg below 4, Hatchling from 4 to 10 and Evolved from 11;
\* it never decreases as total grows and changes exactly at 4 and at 11; the
\* glyph is the ladder entry of the stage stageLabel reports.
C10_StageLadder ==
    result.fn = "creature" =>
        /\ result.label = (IF args.total < 4 THEN "Egg"
                           ELSE IF args.total < 11 THEN "Hatchling" ELSE "Evolved")
        /\ \A t \in 0..args.total : StageRank(stageLabel(t)) <= StageRank(result.label)
        /\ args.total > 0 =>
              ((stageLabel(args.total - 1) # result.label) <=> args.total \in {4, 11})
        /\ result.emoji = CREATURES[args.category][StageRank(result.label)]

C10_Witness ==
    /\ result.fn = "creature"
    /\ args = [category |-> "Personal", total |-> 11]
    /\ result.label = "Evolved"
    /\ result.emoji = "unicorn"

====
